---- MODULE Spec2Model ----
(***************************************************************************)
(* Model of the expense-tracker REST API (src/index.js): the readiness     *)
(* gate, register / login, bearer-token verification and the owner-scoped  *)
(* ledger operations on the `users` and `expenses` collections.            *)
(*                                                                         *)
(* Conventions                                                             *)
(*  - a collection is a sequence of documents in natural (insertion) order *)
(*  - an ObjectId is a natural number; its 24-hex text form is the record  *)
(*    [hex24 |-> TRUE, n |-> id]; text that is not an ObjectId has         *)
(*    hex24 = FALSE                                                        *)
(*  - a JSON text that has to be cut (the date) is a tuple of characters   *)
(*  - a JSON amount is [json, numeric, v]: its JSON type, whether its text *)
(*    form reads as a float, and that float counted in whole units         *)
(*  - time is the whole-second clock jsonwebtoken reads                    *)
(*    (Math.floor(Date.now() / 1000))                                      *)
(*  - the Thai validation messages of the source are written in ASCII      *)
(***************************************************************************)
EXTENDS Integers, Sequences, FiniteSets, TLC

VARIABLES isDbReady, users, expenses, nextId, now, session, inflight, req, resp

vars == <<isDbReady, users, expenses, nextId, now, session, inflight, req, resp>>

store == <<users, expenses>>

----------------------------------------------------------------------------
(* Bounds *)

MaxId == 4

MaxUsers == 2

NumClients == 2

MaxRegs == 2

MaxTime == 3601

(* Program constants *)

ExpiresIn == 3600

MinLen == 4

BcryptCost == 10

Period == 7

JWT_SECRET == "yourSecretKey"

Clients == 1 .. NumClients

Slots == 1 .. MaxRegs

----------------------------------------------------------------------------
(* Input values *)

Usernames == {"alice", "bob1", "al", ""}

Passwords == {"pass1234", "hunter22", "abc"}

Salts == {"salt1"}

Num(n) == [json |-> "number", numeric |-> TRUE, v |-> n]

NumStr(n) == [json |-> "string", numeric |-> TRUE, v |-> n]

NotNum == [json |-> "string", numeric |-> FALSE, v |-> 0]

Jan05 == <<"2", "0", "2", "5", "-", "0", "1", "-", "0", "5">>

Feb03 == <<"2", "0", "2", "5", "-", "0", "2", "-", "0", "3">>

Jan05Basic == <<"2", "0", "2", "5", "0", "1", "0", "5">>

(* a day the month does not have, in a form the pattern of isISO8601 matches *)
Feb30 == <<"2", "0", "2", "5", "-", "0", "2", "-", "3", "0">>

BadMonth == <<"2", "0", "2", "5", "-", "1", "3", "-", "0", "1">>

----------------------------------------------------------------------------
(* Text helpers *)

DigitChars == <<"0", "1", "2", "3", "4", "5", "6", "7", "8", "9">>

IsDigit(c) == \E i \in 1 .. 10 : DigitChars[i] = c

DigitVal(c) == (CHOOSE i \in 1 .. 10 : DigitChars[i] = c) - 1

AllDigits(s) == \A i \in 1 .. Len(s) : IsDigit(s[i])

TwoDigits(s, i) == 10 * DigitVal(s[i]) + DigitVal(s[i + 1])

(* UTF-8 code of the characters a date is written with *)
CharCode(c) == IF c = "-" THEN 45 ELSE 48 + DigitVal(c)

Min(S) == CHOOSE x \in S : \A y \in S : x <= y

(* binary string comparison, as BSON orders strings: a < b *)
StrLess(a, b) ==
    \E i \in 1 .. Len(a) + 1 :
        /\ i <= Len(b)
        /\ \A j \in 1 .. (i - 1) : a[j] = b[j]
        /\ (i = Len(a) + 1 \/ CharCode(a[i]) < CharCode(b[i]))

(* $substr: [string, start, length], start counted from 0 *)
substr(s, start, length) ==
    SubSeq(s, start + 1, IF start + length < Len(s) THEN start + length ELSE Len(s))

----------------------------------------------------------------------------
(* express-validator checks.  A check reads the text form of the value and *)
(* leaves the value in the request body as it was sent.                    *)

notEmpty(s) == Len(s) > 0

isLength(s, min) == Len(s) >= min

isIn(v, allowed) == v \in allowed

isFloat(a, gt) == a.numeric /\ a.v > gt

ValidMonth(s, i) == IsDigit(s[i]) /\ IsDigit(s[i + 1]) /\ TwoDigits(s, i) \in 1 .. 12

ValidDay(s, i) == IsDigit(s[i]) /\ IsDigit(s[i + 1]) /\ TwoDigits(s, i) \in 1 .. 31

(* the calendar-date forms of validator's ISO 8601 pattern: YYYY, YYYY-MM, *)
(* YYYY-MM-DD and the basic form YYYYMMDD (the separator is optional)      *)
isISO8601(s) ==
    \/ Len(s) = 4 /\ AllDigits(s)
    \/ /\ Len(s) = 7
       /\ AllDigits(SubSeq(s, 1, 4)) /\ s[5] = "-" /\ ValidMonth(s, 6)
    \/ /\ Len(s) = 10
       /\ AllDigits(SubSeq(s, 1, 4)) /\ s[5] = "-" /\ ValidMonth(s, 6)
       /\ s[8] = "-" /\ ValidDay(s, 9)
    \/ /\ Len(s) = 8
       /\ AllDigits(SubSeq(s, 1, 4)) /\ ValidMonth(s, 5) /\ ValidDay(s, 7)

Msg(failed, text) == IF failed THEN <<text>> ELSE <<>>

(* the checks of POST /register without the two length rules *)
registerErrors_requiredOnly(b) == Msg(~notEmpty(b.username), "Username is required")

registerErrors(b) ==
    Msg(~notEmpty(b.username), "Username is required")
    \o Msg(~isLength(b.username, MinLen), "Username must be at least 4 characters")
    \o Msg(~isLength(b.password, MinLen), "Password must be at least 4 characters")

loginErrors(b) ==
    Msg(~notEmpty(b.username), "Username is required")
    \o Msg(~notEmpty(b.password), "Password is required")

expenseErrors(b) ==
    Msg(~isIn(b.type, {"expense", "income"}), "type must be expense or income")
    \o Msg(~isFloat(b.amount, 0), "amount must be a number greater than 0")
    \o Msg(~isISO8601(b.date), "date must be a date like yyyy-mm-dd")
    \o Msg(~notEmpty(b.description), "description must not be empty")

----------------------------------------------------------------------------
(* ObjectId, bcrypt, jsonwebtoken *)

ToHex(id) == [hex24 |-> TRUE, n |-> id]

NotHex == [hex24 |-> FALSE, n |-> 0]

(* new ObjectId(text): throws unless the text is a 24-hex ObjectId *)
ObjectIdThrows(text) == ~text.hex24

ObjectId(text) == text.n

bcryptHash(password, salt) ==
    [cost |-> BcryptCost, salt |-> salt, digest |-> <<salt, password>>]

(* bcrypt.compare answering true for any password *)
bcryptCompare_any(password, hash) == TRUE

bcryptCompare(password, hash) == hash.digest = <<hash.salt, password>>

jwtSign(payload, secret, t) ==
    [user_id |-> payload.user_id, username |-> payload.username,
     iat |-> t, exp |-> t + ExpiresIn, key |-> secret]

(* jwt.verify with the expiry left unchecked *)
jwtVerify_noExpiry(token, secret, t) == token.key = secret

(* jwt.verify fails on a bad signature, or when clockTimestamp >= exp *)
jwtVerify(token, secret, t) == token.key = secret /\ t < token.exp

(* authenticateToken passing any token that is present *)
authenticateToken_unverified(auth, t) == IF auth = {} THEN 401 ELSE 200

(* authenticateToken: the status it answers with, 200 standing for next() *)
authenticateToken(auth, t) ==
    IF auth = {} THEN 401
    ELSE IF \A token \in auth : jwtVerify(token, JWT_SECRET, t) THEN 200
    ELSE 403

(* req.user after authenticateToken *)
reqUser(auth) == CHOOSE token \in auth : TRUE

----------------------------------------------------------------------------
(* Collection queries *)

findOne(username) ==
    LET idx == {i \in 1 .. Len(users) : users[i].username = username}
    IN  IF idx = {} THEN {} ELSE {users[Min(idx)]}

(* a filter on _id alone *)
matchIdOwner_idOnly(id, owner) == {i \in 1 .. Len(expenses) : expenses[i]._id = id}

(* indexes of the documents matching {_id, user_id} *)
matchIdOwner(id, owner) ==
    {i \in 1 .. Len(expenses) : expenses[i]._id = id /\ expenses[i].user_id = owner}

(* a filter that leaves the owner out *)
matchOwner_everyone(owner) == 1 .. Len(expenses)

(* indexes of the documents matching {user_id} *)
matchOwner(owner) == {i \in 1 .. Len(expenses) : expenses[i].user_id = owner}

(* removal of the element at i and of everything after it *)
RemoveAt_from(s, i) == SubSeq(s, 1, i - 1)

RemoveAt(s, i) == SubSeq(s, 1, i - 1) \o SubSeq(s, i + 1, Len(s))

----------------------------------------------------------------------------
(* Requests and responses *)

NoBody ==
    [username |-> "", password |-> "", type |-> "", amount |-> NotNum,
     date |-> <<>>, description |-> "", user_id |-> 0]

(* auth: the bearer tokens of the Authorization header, {} when absent;    *)
(* id: the :id path parameter                                              *)
Request(op, client, auth, id, body) ==
    [op |-> op, client |-> client, auth |-> auth, id |-> id, body |-> body]

Reply(op, status) ==
    [op |-> op, status |-> status, error |-> "", errors |-> <<>>, id |-> {},
     username |-> "", token |-> {}, count |-> {}, list |-> <<>>, summary |-> {}]

ErrorReply(op, status, error) == [Reply(op, status) EXCEPT !.error = error]

ErrorsReply(op, errors) == [Reply(op, 400) EXCEPT !.errors = errors]

NoRequest == Request("none", 0, {}, NotHex, NoBody)

NoReply == Reply("none", 0)

RegisterBodies ==
    {[NoBody EXCEPT !.username = u, !.password = p] : u \in Usernames, p \in Passwords}

LoginBodies ==
    {[NoBody EXCEPT !.username = u, !.password = p] :
        u \in Usernames, p \in Passwords \cup {""}}

(* every ledger body also names user 1 as its owner (a field no handler    *)
(* reads)                                                                  *)
LunchBody ==
    [NoBody EXCEPT !.type = "expense", !.amount = Num(5), !.date = Jan05,
                   !.description = "lunch", !.user_id = 1]

(* a date in the basic form, which isISO8601 accepts *)
BasicDateBody == [LunchBody EXCEPT !.date = Jan05Basic]

(* bodies that pass the validators: LunchBody and its variations in one    *)
(* field (an income, an amount sent as a JSON string, another month, a day *)
(* that does not exist, a date written without separators)                 *)
ValidBodies ==
    {LunchBody, [LunchBody EXCEPT !.type = "income"],
     [LunchBody EXCEPT !.amount = NumStr(7)], [LunchBody EXCEPT !.date = Feb03],
     [LunchBody EXCEPT !.date = Feb30], BasicDateBody}

AllBadBody ==
    [LunchBody EXCEPT !.type = "gift", !.amount = NotNum, !.date = BadMonth,
                      !.description = ""]

InvalidBodies ==
    {[LunchBody EXCEPT !.type = "gift"], [LunchBody EXCEPT !.amount = Num(0)],
     [LunchBody EXCEPT !.amount = NotNum], [LunchBody EXCEPT !.date = BadMonth],
     [LunchBody EXCEPT !.description = ""], AllBadBody}

ExpenseBodies == ValidBodies \cup InvalidBodies

FewBodies == {LunchBody, AllBadBody}

(* claims of a registered user signed with a key that is not JWT_SECRET *)
Forged ==
    {jwtSign([user_id |-> ToHex(users[i]._id), username |-> users[i].username],
             "otherKey", now) : i \in 1 .. Len(users)}

(* what a client can put in the Authorization header: nothing, the token   *)
(* it got from login, or a forged one                                      *)
AuthChoices(c) == {{}} \cup {session[c]} \cup {{t} : t \in Forged}

OwnAuth(c) == {session[c]}

TokenOrNone(c) == {{}} \cup {session[c]}

UserIds == {users[i]._id : i \in 1 .. Len(users)}

(* what a client can put in the :id path parameter: the id of a ledger     *)
(* document (stored or deleted), an id not issued yet, or text that is no  *)
(* ObjectId                                                                *)
PathIds == {ToHex(n) : n \in (1 .. nextId) \ UserIds} \cup {NotHex}

Ops == {"register", "login", "create", "list", "update", "delete", "summary"}

----------------------------------------------------------------------------
(* The state after the module is loaded: startServer() is awaiting the     *)
(* connection.  req / resp hold the request being answered and its answer; *)
(* one callback runs at a time (the event loop), so the next one starts    *)
(* when the answer has been handed to the socket.                          *)

Init ==
    /\ isDbReady = FALSE
    /\ users = <<>>
    /\ expenses = <<>>
    /\ nextId = 1
    /\ now = 0
    /\ session = [c \in Clients |-> {}]
    /\ inflight = [s \in Slots |-> {}]
    /\ req = NoRequest
    /\ resp = NoReply

idle == resp = NoReply

(* res.json(...) has written the answer *)
endResponse ==
    /\ ~idle
    /\ req' = NoRequest
    /\ resp' = NoReply
    /\ UNCHANGED <<isDbReady, users, expenses, nextId, now, session, inflight>>

(* startServer: MongoClient.connect resolves *)
startServer ==
    /\ idle
    /\ ~isDbReady
    /\ isDbReady' = TRUE
    /\ UNCHANGED <<users, expenses, nextId, now, session, inflight, req, resp>>

(* the clock moves on *)
Tick(d) ==
    /\ idle
    /\ now + d <= MaxTime
    /\ now' = now + d
    /\ UNCHANGED <<isDbReady, users, expenses, nextId, session, inflight, req, resp>>

(* the readiness middleware with the flag read once and kept *)
dbNotReady_cached(op, c) ==
    /\ idle
    /\ req' = Request(op, c, {}, NotHex, NoBody)
    /\ resp' = ErrorReply(op, 503, "Database not ready")
    /\ UNCHANGED <<isDbReady, users, expenses, nextId, now, session, inflight>>

(* the readiness middleware answers a request of any route *)
dbNotReady(op, c) ==
    /\ idle
    /\ ~isDbReady
    /\ req' = Request(op, c, {}, NotHex, NoBody)
    /\ resp' = ErrorReply(op, 503, "Database not ready")
    /\ UNCHANGED <<isDbReady, users, expenses, nextId, now, session, inflight>>

Pending == {t \in Slots : inflight[t] # {}}

(* POST /register without the lookup of the username *)
registerLookup_noCheck(s, b) ==
    /\ idle
    /\ isDbReady
    /\ inflight[s] = {}
    /\ LET r == Request("register", 0, {}, NotHex, b)
           errors == registerErrors(b)
       IN  IF errors # <<>>
           THEN /\ req' = r
                /\ resp' = ErrorsReply("register", errors)
                /\ UNCHANGED inflight
           ELSE /\ Len(users) + Cardinality(Pending) < MaxUsers
                /\ nextId + Cardinality(Pending) <= MaxId
                /\ inflight' = [inflight EXCEPT ![s] = {b}]
                /\ UNCHANGED <<req, resp>>
    /\ UNCHANGED <<isDbReady, users, expenses, nextId, now, session>>

(* POST /register up to the await of findOne / bcrypt.hash *)
registerLookup(s, b) ==
    /\ idle
    /\ isDbReady
    /\ inflight[s] = {}
    /\ LET r == Request("register", 0, {}, NotHex, b)
           errors == registerErrors(b)
       IN  IF errors # <<>>
           THEN /\ req' = r
                /\ resp' = ErrorsReply("register", errors)
                /\ UNCHANGED inflight
           ELSE IF findOne(b.username) # {}
           THEN /\ req' = r
                /\ resp' = ErrorReply("register", 400, "Username already exists")
                /\ UNCHANGED inflight
           ELSE /\ Len(users) + Cardinality(Pending) < MaxUsers
                /\ nextId + Cardinality(Pending) <= MaxId
                /\ inflight' = [inflight EXCEPT ![s] = {b}]
                /\ UNCHANGED <<req, resp>>
    /\ UNCHANGED <<isDbReady, users, expenses, nextId, now, session>>

(* POST /register writing the record in place of one with the same         *)
(* username, as an upsert on {username} would                              *)
registerInsert_upsert(s, salt) ==
    /\ idle
    /\ inflight[s] # {}
    /\ LET b == CHOOSE x \in inflight[s] : TRUE
           hash == bcryptHash(b.password, salt)
       IN  /\ users' = Append(SelectSeq(users, LAMBDA u : u.username # b.username),
                              [_id |-> nextId, username |-> b.username, password |-> hash])
           /\ req' = Request("register", 0, {}, NotHex, b)
           /\ resp' = [Reply("register", 200) EXCEPT !.id = {nextId}, !.username = b.username]
    /\ nextId' = nextId + 1
    /\ inflight' = [inflight EXCEPT ![s] = {}]
    /\ UNCHANGED <<isDbReady, expenses, now, session>>

(* POST /register from bcrypt.hash on: insertOne and the answer *)
registerInsert(s, salt) ==
    /\ idle
    /\ inflight[s] # {}
    /\ LET b == CHOOSE x \in inflight[s] : TRUE
           hash == bcryptHash(b.password, salt)
       IN  /\ users' = Append(users, [_id |-> nextId, username |-> b.username, password |-> hash])
           /\ req' = Request("register", 0, {}, NotHex, b)
           /\ resp' = [Reply("register", 200) EXCEPT !.id = {nextId}, !.username = b.username]
    /\ nextId' = nextId + 1
    /\ inflight' = [inflight EXCEPT ![s] = {}]
    /\ UNCHANGED <<isDbReady, expenses, now, session>>

(* POST /login; the client keeps the token it is given *)
login(c, b) ==
    /\ idle
    /\ isDbReady
    /\ req' = Request("login", c, {}, NotHex, b)
    /\ LET errors == loginErrors(b)
           found == findOne(b.username)
       IN  IF errors # <<>>
           THEN resp' = ErrorsReply("login", errors) /\ UNCHANGED session
           ELSE IF found = {}
           THEN resp' = ErrorReply("login", 401, "User not found") /\ UNCHANGED session
           ELSE LET user == CHOOSE u \in found : TRUE
                    token == jwtSign([user_id |-> ToHex(user._id), username |-> b.username],
                                     JWT_SECRET, now)
                IN  IF ~bcryptCompare(b.password, user.password)
                    THEN resp' = ErrorReply("login", 401, "Invalid password") /\ UNCHANGED session
                    ELSE /\ resp' = [Reply("login", 200) EXCEPT !.token = {token}]
                         /\ session' = [session EXCEPT ![c] = {token}]
    /\ UNCHANGED <<isDbReady, users, expenses, nextId, now, inflight>>

----------------------------------------------------------------------------
(* Ledger routes: readiness gate, authenticateToken, validators, handler   *)

(* the owner the handlers scope by: new ObjectId(req.user.user_id) *)
ownerOf(auth) == ObjectId(reqUser(auth).user_id)

(* POST /expense with the owner taken from the request body *)
createExpense_bodyOwner(c, auth, b) ==
    /\ idle
    /\ isDbReady
    /\ req' = Request("create", c, auth, NotHex, b)
    /\ LET status == authenticateToken(auth, now)
           errors == expenseErrors(b)
       IN  IF status = 401
           THEN resp' = ErrorReply("create", 401, "No token provided")
                /\ UNCHANGED <<expenses, nextId>>
           ELSE IF status = 403
           THEN resp' = ErrorReply("create", 403, "Invalid token")
                /\ UNCHANGED <<expenses, nextId>>
           ELSE IF errors # <<>>
           THEN resp' = ErrorsReply("create", errors) /\ UNCHANGED <<expenses, nextId>>
           ELSE /\ nextId <= MaxId
                /\ expenses' = Append(expenses,
                        [_id |-> nextId,
                         user_id |-> b.user_id,
                         type |-> b.type,
                         amount |-> b.amount,
                         description |-> b.description,
                         date |-> b.date])
                /\ nextId' = nextId + 1
                /\ resp' = [Reply("create", 200) EXCEPT !.id = {nextId}]
    /\ UNCHANGED <<isDbReady, users, now, session, inflight>>

(* POST /expense *)
createExpense(c, auth, b) ==
    /\ idle
    /\ isDbReady
    /\ req' = Request("create", c, auth, NotHex, b)
    /\ LET status == authenticateToken(auth, now)
           errors == expenseErrors(b)
       IN  IF status = 401
           THEN resp' = ErrorReply("create", 401, "No token provided")
                /\ UNCHANGED <<expenses, nextId>>
           ELSE IF status = 403
           THEN resp' = ErrorReply("create", 403, "Invalid token")
                /\ UNCHANGED <<expenses, nextId>>
           ELSE IF errors # <<>>
           THEN resp' = ErrorsReply("create", errors) /\ UNCHANGED <<expenses, nextId>>
           ELSE /\ nextId <= MaxId
                /\ expenses' = Append(expenses,
                        [_id |-> nextId,
                         user_id |-> ownerOf(auth),
                         type |-> b.type,
                         amount |-> b.amount,
                         description |-> b.description,
                         date |-> b.date])
                /\ nextId' = nextId + 1
                /\ resp' = [Reply("create", 200) EXCEPT !.id = {nextId}]
    /\ UNCHANGED <<isDbReady, users, now, session, inflight>>

(* the orders .sort({date: -1}) can return the matching documents in: date *)
(* descending, documents of equal date in an order the database chooses    *)
sortByDateDesc(idx) ==
    {p \in [1 .. Cardinality(idx) -> idx] :
        /\ \A i, j \in DOMAIN p : i # j => p[i] # p[j]
        /\ \A i, j \in DOMAIN p :
               i < j => ~StrLess(expenses[p[i]].date, expenses[p[j]].date)}

(* GET /expenses *)
listExpenses(c, auth) ==
    /\ idle
    /\ isDbReady
    /\ req' = Request("list", c, auth, NotHex, NoBody)
    /\ LET status == authenticateToken(auth, now)
       IN  IF status = 401
           THEN resp' = ErrorReply("list", 401, "No token provided")
           ELSE IF status = 403
           THEN resp' = ErrorReply("list", 403, "Invalid token")
           ELSE \E p \in sortByDateDesc(matchOwner(ownerOf(auth))) :
                    resp' = [Reply("list", 200) EXCEPT
                                !.list = [i \in DOMAIN p |-> expenses[p[i]]]]
    /\ UNCHANGED <<isDbReady, users, expenses, nextId, now, session, inflight>>

(* PUT /expense/:id with the owner set from the body along with the fields *)
updateExpense_replace(c, auth, id, b) ==
    /\ idle
    /\ isDbReady
    /\ req' = Request("update", c, auth, id, b)
    /\ LET status == authenticateToken(auth, now)
           errors == expenseErrors(b)
       IN  IF status = 401
           THEN resp' = ErrorReply("update", 401, "No token provided") /\ UNCHANGED expenses
           ELSE IF status = 403
           THEN resp' = ErrorReply("update", 403, "Invalid token") /\ UNCHANGED expenses
           ELSE IF errors # <<>>
           THEN resp' = ErrorsReply("update", errors) /\ UNCHANGED expenses
           ELSE IF ObjectIdThrows(id)
           THEN resp' = ErrorReply("update", 400, "BSONError") /\ UNCHANGED expenses
           ELSE LET idx == matchIdOwner(ObjectId(id), ownerOf(auth))
                IN  IF idx = {}
                    THEN resp' = [Reply("update", 200) EXCEPT !.count = {0}]
                         /\ UNCHANGED expenses
                    ELSE LET i == Min(idx)
                             doc == [expenses[i] EXCEPT
                                        !.user_id = b.user_id,
                                        !.type = b.type, !.amount = b.amount,
                                        !.description = b.description, !.date = b.date]
                             modifiedCount == IF doc = expenses[i] THEN 0 ELSE 1
                         IN  /\ expenses' = [expenses EXCEPT ![i] = doc]
                             /\ resp' = [Reply("update", 200) EXCEPT !.count = {modifiedCount}]
    /\ UNCHANGED <<isDbReady, users, nextId, now, session, inflight>>

(* PUT /expense/:id *)
updateExpense(c, auth, id, b) ==
    /\ idle
    /\ isDbReady
    /\ req' = Request("update", c, auth, id, b)
    /\ LET status == authenticateToken(auth, now)
           errors == expenseErrors(b)
       IN  IF status = 401
           THEN resp' = ErrorReply("update", 401, "No token provided") /\ UNCHANGED expenses
           ELSE IF status = 403
           THEN resp' = ErrorReply("update", 403, "Invalid token") /\ UNCHANGED expenses
           ELSE IF errors # <<>>
           THEN resp' = ErrorsReply("update", errors) /\ UNCHANGED expenses
           ELSE IF ObjectIdThrows(id)
           THEN resp' = ErrorReply("update", 400, "BSONError") /\ UNCHANGED expenses
           ELSE LET idx == matchIdOwner(ObjectId(id), ownerOf(auth))
                IN  IF idx = {}
                    THEN resp' = [Reply("update", 200) EXCEPT !.count = {0}]
                         /\ UNCHANGED expenses
                    ELSE LET i == Min(idx)
                             doc == [expenses[i] EXCEPT
                                        !.type = b.type, !.amount = b.amount,
                                        !.description = b.description, !.date = b.date]
                             modifiedCount == IF doc = expenses[i] THEN 0 ELSE 1
                         IN  /\ expenses' = [expenses EXCEPT ![i] = doc]
                             /\ resp' = [Reply("update", 200) EXCEPT !.count = {modifiedCount}]
    /\ UNCHANGED <<isDbReady, users, nextId, now, session, inflight>>

(* DELETE /expense/:id *)
deleteExpense(c, auth, id) ==
    /\ idle
    /\ isDbReady
    /\ req' = Request("delete", c, auth, id, NoBody)
    /\ LET status == authenticateToken(auth, now)
       IN  IF status = 401
           THEN resp' = ErrorReply("delete", 401, "No token provided") /\ UNCHANGED expenses
           ELSE IF status = 403
           THEN resp' = ErrorReply("delete", 403, "Invalid token") /\ UNCHANGED expenses
           ELSE IF ObjectIdThrows(id)
           THEN resp' = ErrorReply("delete", 400, "BSONError") /\ UNCHANGED expenses
           ELSE LET idx == matchIdOwner(ObjectId(id), ownerOf(auth))
                IN  IF idx = {}
                    THEN resp' = [Reply("delete", 200) EXCEPT !.count = {0}]
                         /\ UNCHANGED expenses
                    ELSE /\ expenses' = RemoveAt(expenses, Min(idx))
                         /\ resp' = [Reply("delete", 200) EXCEPT !.count = {1}]
    /\ UNCHANGED <<isDbReady, users, nextId, now, session, inflight>>

(* $sum skips a value that is not a BSON number *)
sumOperand(amount) == IF amount.json = "number" THEN amount.v ELSE 0

(* $sum: {$cond: [{$eq: ['$type', type]}, '$amount', 0]} over the first n  *)
(* documents, within the group `period` of the owner's documents           *)
RECURSIVE sumCond(_, _, _, _)
sumCond(n, owner, period, type) ==
    IF n = 0 THEN 0
    ELSE sumCond(n - 1, owner, period, type)
         + (IF /\ expenses[n].user_id = owner
               /\ substr(expenses[n].date, 0, Period) = period
               /\ expenses[n].type = type
            THEN sumOperand(expenses[n].amount)
            ELSE 0)

(* the $match / $group pipeline; the result is kept as a set because the   *)
(* order of the groups is not defined                                      *)
aggregate(owner) ==
    {[_id |-> period,
      total_income |-> sumCond(Len(expenses), owner, period, "income"),
      total_expense |-> sumCond(Len(expenses), owner, period, "expense")] :
        period \in {substr(expenses[i].date, 0, Period) : i \in matchOwner(owner)}}

(* GET /summary *)
getSummary(c, auth) ==
    /\ idle
    /\ isDbReady
    /\ req' = Request("summary", c, auth, NotHex, NoBody)
    /\ LET status == authenticateToken(auth, now)
       IN  IF status = 401
           THEN resp' = ErrorReply("summary", 401, "No token provided")
           ELSE IF status = 403
           THEN resp' = ErrorReply("summary", 403, "Invalid token")
           ELSE resp' = [Reply("summary", 200) EXCEPT !.summary = aggregate(ownerOf(auth))]
    /\ UNCHANGED <<isDbReady, users, expenses, nextId, now, session, inflight>>

----------------------------------------------------------------------------
(* The service from start-up, with two ledger bodies, one client holding a *)
(* token, and within the lifetime of the tokens                            *)

(* the client that logs in and uses the ledger in this specification *)
MainClients == {1}

Next ==
    \/ startServer
    \/ endResponse
    \/ \E op \in Ops, c \in MainClients : dbNotReady(op, c)
    \/ \E s \in Slots, b \in RegisterBodies : registerLookup(s, b)
    \/ \E s \in Slots, salt \in Salts : registerInsert(s, salt)
    \/ \E c \in MainClients, b \in LoginBodies : login(c, b)
    \/ \E c \in MainClients : \E auth \in TokenOrNone(c), b \in FewBodies : createExpense(c, auth, b)
    \/ \E c \in MainClients : \E auth \in TokenOrNone(c) : listExpenses(c, auth)
    \/ \E c \in MainClients : \E auth \in TokenOrNone(c), id \in PathIds, b \in FewBodies :
           updateExpense(c, auth, id, b)
    \/ \E c \in MainClients : \E auth \in TokenOrNone(c), id \in PathIds : deleteExpense(c, auth, id)
    \/ \E c \in MainClients : \E auth \in TokenOrNone(c) : getSummary(c, auth)

Spec == Init /\ [][Next]_vars

----------------------------------------------------------------------------
(* The ledger, from the state in which alice and bob1 have registered and  *)
(* logged in, with the full set of ledger bodies                           *)

InitLedger ==
    /\ isDbReady = TRUE
    /\ users = <<[_id |-> 1, username |-> "alice", password |-> bcryptHash("pass1234", "salt1")],
                 [_id |-> 2, username |-> "bob1", password |-> bcryptHash("hunter22", "salt1")]>>
    /\ expenses = <<>>
    /\ nextId = 3
    /\ now = 0
    /\ session = [c \in Clients |->
                    IF c <= 2
                    THEN {jwtSign([user_id |-> ToHex(users[c]._id), username |-> users[c].username],
                                  JWT_SECRET, 0)}
                    ELSE {}]
    /\ inflight = [s \in Slots |-> {}]
    /\ req = NoRequest
    /\ resp = NoReply

NextLedger ==
    \/ endResponse
    \/ \E c \in Clients : \E auth \in OwnAuth(c), b \in ExpenseBodies : createExpense(c, auth, b)
    \/ \E c \in Clients : \E auth \in OwnAuth(c) : listExpenses(c, auth)
    \/ \E c \in Clients : \E auth \in OwnAuth(c), id \in PathIds, b \in ExpenseBodies :
           updateExpense(c, auth, id, b)
    \/ \E c \in Clients : \E auth \in OwnAuth(c), id \in PathIds : deleteExpense(c, auth, id)
    \/ \E c \in Clients : \E auth \in OwnAuth(c) : getSummary(c, auth)

SpecLedger == InitLedger /\ [][NextLedger]_vars

----------------------------------------------------------------------------
(* Tokens over time, from the state in which alice and bob1 have           *)
(* registered and logged in                                                *)

TickSteps == {ExpiresIn - 1, ExpiresIn, ExpiresIn + 1}

KnownLogins ==
    {[NoBody EXCEPT !.username = u, !.password = p] :
        u \in {"alice", "bob1"}, p \in {"pass1234", "hunter22"}}

NextToken ==
    \/ endResponse
    \/ \E d \in TickSteps : Tick(d)
    \/ \E c \in Clients, b \in KnownLogins : login(c, b)
    \/ \E c \in Clients : \E auth \in AuthChoices(c), b \in FewBodies : createExpense(c, auth, b)
    \/ \E c \in Clients : \E auth \in AuthChoices(c) : listExpenses(c, auth)
    \/ \E c \in Clients : \E auth \in AuthChoices(c), id \in PathIds, b \in FewBodies :
           updateExpense(c, auth, id, b)
    \/ \E c \in Clients : \E auth \in AuthChoices(c), id \in PathIds : deleteExpense(c, auth, id)
    \/ \E c \in Clients : \E auth \in AuthChoices(c) : getSummary(c, auth)

SpecToken == InitLedger /\ [][NextToken]_vars

----------------------------------------------------------------------------
(* Properties *)

LedgerOps == {"create", "list", "update", "delete", "summary"}

UsernameUsed(username) == \E i \in 1 .. Len(users) : users[i].username = username

(* C7: while the connection is not established every request, of any       *)
(* route, is answered 503 and the store is neither read nor written (it is *)
(* as at start-up and the answer carries no data); once the connection is  *)
(* established no request is answered 503.                                 *)
C7_ReadinessGate ==
    /\ ~isDbReady =>
          /\ users = <<>>
          /\ expenses = <<>>
          /\ nextId = 1
          /\ Pending = {}
          /\ \A c \in Clients : session[c] = {}
          /\ ~idle => resp = ErrorReply(req.op, 503, "Database not ready")
    /\ (isDbReady /\ ~idle) => resp.status # 503

C7_Witness == ~isDbReady /\ req.op = "summary" /\ resp.status = 503

(* C2: no two user records have the same username, whatever the            *)
(* interleaving of the lookup and insert steps of concurrent registrations *)
C2_UniqueUsernames ==
    \A i, j \in 1 .. Len(users) : users[i].username = users[j].username => i = j

(* a request goes on to bcrypt.hash and insertOne only if it is valid and   *)
(* its username is unused when it arrives                                  *)
C3_Admitted ==
    \A s \in Slots :
        (inflight[s] = {} /\ inflight'[s] # {}) =>
            \A b \in inflight'[s] :
                registerErrors(b) = <<>> /\ ~UsernameUsed(b.username)

C3_Answered ==
    (idle /\ isDbReady /\ resp'.op = "register") =>
        LET b == req'.body
            last == users'[Len(users')]
        IN  /\ resp'.status = 200 =>
                  /\ registerErrors(b) = <<>>
                  /\ resp'.username = b.username
                  /\ users' = Append(users, last)
                  /\ last.username = b.username
                  /\ resp'.id = {last._id}
            /\ resp'.status # 200 => (resp'.status = 400 /\ users' = users)
            /\ (registerErrors(b) = <<>> /\ ~UsernameUsed(b.username)) => resp'.status = 200
            /\ (registerErrors(b) = <<>> /\ UsernameUsed(b.username) /\ inflight' = inflight) =>
                  resp' = ErrorReply("register", 400, "Username already exists")

(* C3: (of the requests the register handler answers, the connection being *)
(* established) a request with a valid pair and an unused username is      *)
(* answered 200 with that username and adds exactly one user record; a     *)
(* register request that arrives when the username is in use is answered   *)
(* 400 "Username already exists" and adds no record.                       *)
C3_RegisterOnce == [][C3_Admitted /\ C3_Answered]_vars

C3_Witness ==
    /\ resp = ErrorReply("register", 400, "Username already exists")
    /\ registerErrors(req.body) = <<>>
    /\ Len(users) = 1
    /\ users[1].username = req.body.username

(* C4: for every user record, a login with the password it was registered  *)
(* with gives a token that verifies and carries that record's id and       *)
(* username, and a login with another password is answered 401 without a   *)
(* token.                                                                  *)
C4_LoginIdentity ==
    (~idle /\ resp.op = "login" /\ loginErrors(req.body) = <<>>) =>
        \A i \in 1 .. Len(users) :
            users[i].username = req.body.username =>
                IF bcryptCompare(req.body.password, users[i].password)
                THEN /\ resp.status = 200
                     /\ \E token \in resp.token :
                            /\ jwtVerify(token, JWT_SECRET, now)
                            /\ token.user_id = ToHex(users[i]._id)
                            /\ token.username = users[i].username
                ELSE resp.status = 401 /\ resp.token = {}

(* the same, of the states in which usernames are unique *)
C4_LoginIdentityWhenUnique == C2_UniqueUsernames => C4_LoginIdentity


C5_Step ==
    (idle /\ req'.op \in LedgerOps) =>
        \A token \in req'.auth :
            token.key = JWT_SECRET =>
                /\ now - token.iat > ExpiresIn =>
                      /\ resp' = ErrorReply(req'.op, 403, "Invalid token")
                      /\ expenses' = expenses
                      /\ users' = users
                      /\ nextId' = nextId
                /\ now - token.iat < ExpiresIn => resp'.status \notin {401, 403}

(* C5: a ledger request whose correctly signed token was issued more than  *)
(* ExpiresIn seconds ago is answered 403 and the store is left as it was;  *)
(* one whose correctly signed token was issued less than ExpiresIn seconds *)
(* ago passes authenticateToken.                                           *)
C5_TokenLifetime == [][C5_Step]_vars

C5_Witness ==
    /\ req.op = "create"
    /\ expenseErrors(req.body) = <<>>
    /\ resp.status = 403
    /\ \E token \in req.auth : token.key = JWT_SECRET /\ now - token.iat > ExpiresIn

Kept(i) == \E j \in 1 .. Len(expenses') : expenses'[j] = expenses[i]

C1_Step ==
    (idle /\ req'.op \in LedgerOps /\ resp'.status \notin {401, 403}) =>
        LET caller == ownerOf(req'.auth)
            foreign == {i \in 1 .. Len(expenses) : expenses[i].user_id # caller}
        IN  /\ \A i \in foreign : Kept(i)
            /\ (req'.op \in {"update", "delete"} /\ ~ObjectIdThrows(req'.id)
                /\ \E i \in foreign : expenses[i]._id = ObjectId(req'.id)) =>
                  /\ resp'.count \subseteq {0}
                  /\ (req'.op = "delete" \/ expenseErrors(req'.body) = <<>>) => resp'.count = {0}
                  /\ expenses' = expenses
            /\ (req'.op = "list" /\ resp'.status = 200) =>
                  \A k \in DOMAIN resp'.list : resp'.list[k].user_id = caller

(* C1: the list of an owner holds only documents of that owner, and an     *)
(* update or delete addressed to the id of a document of another owner     *)
(* returns the count 0 and leaves every document of other owners as it was *)
C1_OwnerIsolation == [][C1_Step]_vars

C1_Witness ==
    /\ req.op = "update"
    /\ expenseErrors(req.body) = <<>>
    /\ resp.count = {0}
    /\ \E i \in 1 .. Len(expenses) :
           /\ expenses[i]._id = ObjectId(req.id)
           /\ expenses[i].user_id # ownerOf(req.auth)
           /\ expenses[i].type # req.body.type

C10_Created ==
    (idle /\ req'.op = "create" /\ resp'.status \notin {401, 403}
     /\ expenseErrors(req'.body) = <<>>) =>
        /\ resp'.status = 200
        /\ \E id \in resp'.id :
               /\ resp'.id = {id}
               /\ \A i \in 1 .. Len(expenses) : expenses[i]._id # id
               /\ expenses' = Append(expenses,
                                     [_id |-> id,
                                      user_id |-> ownerOf(req'.auth),
                                      type |-> req'.body.type,
                                      amount |-> req'.body.amount,
                                      description |-> req'.body.description,
                                      date |-> req'.body.date])

C10_Stays ==
    \A i \in 1 .. Len(expenses) :
        \/ Kept(i)
        \/ /\ req'.op \in {"update", "delete"}
           /\ resp'.status = 200
           /\ ObjectId(req'.id) = expenses[i]._id
           /\ ownerOf(req'.auth) = expenses[i].user_id

C10_Listed ==
    (idle /\ req'.op = "list" /\ resp'.status = 200) =>
        \A i \in matchOwner(ownerOf(req'.auth)) :
            \E k \in DOMAIN resp'.list : resp'.list[k] = expenses[i]

(* C10: a create request that passes validation appends exactly one        *)
(* document, owned by the user_id of the verified token and carrying the   *)
(* submitted type, amount, date and description, and returns its id, which *)
(* no other document has; a document stays as it is until its owner        *)
(* updates or deletes it, and every list of the owner contains it.         *)
C10_CreateThenRead == [][C10_Created /\ C10_Stays /\ C10_Listed]_vars

C10_Witness ==
    /\ req.op = "create"
    /\ resp.status = 200
    /\ Len(expenses) = 2
    /\ req.body.user_id # ownerOf(req.auth)
    /\ expenses[2]._id \in resp.id
    /\ expenses[2].user_id = ownerOf(req.auth)

(* C8: every stored ledger document has the type 'expense' or 'income' and *)
(* an amount that is a number greater than 0                               *)
C8_LedgerInvariant ==
    \A i \in 1 .. Len(expenses) :
        /\ expenses[i].type \in {"expense", "income"}
        /\ expenses[i].amount.json = "number"
        /\ expenses[i].amount.v > 0

(* the year-month of a validated date *)
YearMonth(date) ==
    IF Len(date) = 8 THEN SubSeq(date, 1, 4) \o <<"-">> \o SubSeq(date, 5, 6)
    ELSE SubSeq(date, 1, 7)

RECURSIVE MonthTotal(_, _, _, _)
MonthTotal(n, owner, month, type) ==
    IF n = 0 THEN 0
    ELSE MonthTotal(n - 1, owner, month, type)
         + (IF /\ expenses[n].user_id = owner
               /\ YearMonth(expenses[n].date) = month
               /\ expenses[n].type = type
            THEN expenses[n].amount.v
            ELSE 0)

MonthlyTotals(owner) ==
    {[_id |-> month,
      total_income |-> MonthTotal(Len(expenses), owner, month, "income"),
      total_expense |-> MonthTotal(Len(expenses), owner, month, "expense")] :
        month \in {YearMonth(expenses[i].date) : i \in matchOwner(owner)}}

(* C6: the summary of an owner has exactly one bucket for each year-month  *)
(* among the dates of the owner's documents, with total_income and         *)
(* total_expense the sums of the amounts of the owner's income and expense *)
(* documents of that month (0 for none), for every amount and date that    *)
(* validation accepts                                                      *)
C6_SummaryTotals ==
    (req.op = "summary" /\ resp.status = 200) =>
        resp.summary = MonthlyTotals(ownerOf(req.auth))

(* the same, of the stores whose amounts are JSON numbers and whose dates  *)
(* are written YYYY-MM-DD                                                  *)
C6_SummaryTotalsOfNumbers ==
    (\A i \in 1 .. Len(expenses) :
        expenses[i].amount.json = "number" /\ Len(expenses[i].date) = 10)
    => C6_SummaryTotals

RECURSIVE DigitsToNat(_)
DigitsToNat(s) ==
    IF s = <<>> THEN 0
    ELSE 10 * DigitsToNat(SubSeq(s, 1, Len(s) - 1)) + DigitVal(s[Len(s)])

(* a validated calendar date as the number yyyymmdd *)
DateNumber(date) == DigitsToNat(SelectSeq(date, IsDigit))

(* the owner's documents by date descending, those of equal date in        *)
(* insertion order                                                         *)
ByDateThenInsertion(owner) ==
    LET idx == matchOwner(owner)
        p == CHOOSE q \in [1 .. Cardinality(idx) -> idx] :
                 \A i, j \in DOMAIN q :
                     i < j =>
                         \/ DateNumber(expenses[q[i]].date) > DateNumber(expenses[q[j]].date)
                         \/ /\ DateNumber(expenses[q[i]].date) = DateNumber(expenses[q[j]].date)
                            /\ q[i] < q[j]
    IN  [i \in DOMAIN p |-> expenses[p[i]]]

(* C9: list returns exactly the documents of the owner, by date            *)
(* descending, documents of equal date in insertion order (so that two     *)
(* calls on the same store return the same sequence); an owner without     *)
(* documents gets the empty sequence                                       *)
C9_ListOrder ==
    (req.op = "list" /\ resp.status = 200) =>
        resp.list = ByDateThenInsertion(ownerOf(req.auth))

(* the part of C9 that is not about the order *)
C9_ListContent ==
    (req.op = "list" /\ resp.status = 200) =>
        /\ Len(resp.list) = Cardinality(matchOwner(ownerOf(req.auth)))
        /\ \A i \in matchOwner(ownerOf(req.auth)) :
               \E k \in DOMAIN resp.list : resp.list[k] = expenses[i]

(* the caller's documents with the id of the path *)
C11_Target ==
    {i \in 1 .. Len(expenses) :
        /\ expenses[i]._id = ObjectId(req'.id)
        /\ expenses[i].user_id = ownerOf(req'.auth)}

C11_Step ==
    (idle /\ req'.op = "delete" /\ resp'.status = 200) =>
        IF C11_Target # {}
        THEN /\ resp'.count = {1}
             /\ \E i \in C11_Target :
                    /\ Len(expenses') = Len(expenses) - 1
                    /\ \A k \in 1 .. Len(expenses') :
                           expenses'[k] = IF k < i THEN expenses[k] ELSE expenses[k + 1]
             /\ \A k \in 1 .. Len(expenses') : expenses'[k]._id # ObjectId(req'.id)
        ELSE /\ resp'.count = {0}
             /\ expenses' = expenses

(* a list holds stored documents only, a summary has a group only for a    *)
(* month in which the caller has a stored document                         *)
C11_ReadsStore ==
    /\ (idle /\ req'.op = "list" /\ resp'.status = 200) =>
           \A k \in DOMAIN resp'.list :
               \E i \in 1 .. Len(expenses) : expenses[i] = resp'.list[k]
    /\ (idle /\ req'.op = "summary" /\ resp'.status = 200) =>
           \A g \in resp'.summary :
               \E i \in matchOwner(ownerOf(req'.auth)) :
                   substr(expenses[i].date, 0, Period) = g._id

(* C11: a delete by the owner of a stored document answers {deleted: 1}    *)
(* and removes that document and no other: the documents of every owner    *)
(* before and after it stay as they were and in their order, no document   *)
(* with that id is left (so no list or summary shows it), and a delete of  *)
(* an id the caller has no document for, such as the same id once more,    *)
(* answers {deleted: 0} and leaves the collection as it was; user records  *)
(* are not touched.                                                        *)
C11_DeleteExactlyOne ==
    [][C11_Step /\ C11_ReadsStore /\ (req'.op = "delete" => users' = users)]_vars

C11_Witness ==
    /\ req.op = "delete"
    /\ resp.count = {1}
    /\ Len(expenses) = 1
    /\ expenses[1].user_id # ownerOf(req.auth)
    /\ expenses[1]._id > ObjectId(req.id)

(* the document d with the four fields of the body b set *)
C12_Set(d, b) ==
    [d EXCEPT !.type = b.type, !.amount = b.amount,
              !.description = b.description, !.date = b.date]

C12_Step ==
    (idle /\ req'.op = "update" /\ resp'.status = 200) =>
        LET target == {i \in 1 .. Len(expenses) :
                          /\ expenses[i]._id = ObjectId(req'.id)
                          /\ expenses[i].user_id = ownerOf(req'.auth)}
        IN  /\ Cardinality(target) <= 1
            /\ Len(expenses') = Len(expenses)
            /\ \A i \in 1 .. Len(expenses) :
                   expenses'[i] = IF i \in target
                                  THEN [_id |-> expenses[i]._id,
                                        user_id |-> expenses[i].user_id,
                                        type |-> req'.body.type,
                                        amount |-> req'.body.amount,
                                        description |-> req'.body.description,
                                        date |-> req'.body.date]
                                  ELSE expenses[i]
            /\ \A i \in 1 .. Len(expenses') :
                   (/\ expenses'[i]._id = ObjectId(req'.id)
                    /\ expenses'[i].user_id = ownerOf(req'.auth)) =>
                       C12_Set(expenses'[i], req'.body) = expenses'[i]

(* C12: an update with valid fields sets type, amount, date and            *)
(* description of the one document matching the id of the path and the     *)
(* user_id of the token to the submitted values; that document's _id and   *)
(* user_id, every other document and the user records stay as they were,   *)
(* and the same update applied to the resulting collection yields the      *)
(* resulting collection again.                                             *)
C12_UpdateOnlyFields == [][C12_Step /\ (req'.op = "update" => users' = users)]_vars

C12_Witness ==
    /\ req.op = "update"
    /\ resp.count = {1}
    /\ Len(expenses) = 2
    /\ \E i, j \in 1 .. 2 :
           /\ expenses[i]._id = ObjectId(req.id)
           /\ expenses[i].user_id = ownerOf(req.auth)
           /\ expenses[i].user_id # req.body.user_id
           /\ expenses[i].date = req.body.date
           /\ expenses[j].user_id # ownerOf(req.auth)
           /\ expenses[j].date # req.body.date

(* the caller of the request being answered has no document that the id of *)
(* the path identifies                                                     *)
C13_NoEntryOfCaller ==
    \A i \in 1 .. Len(expenses) :
        ~(/\ ~ObjectIdThrows(req'.id)
          /\ expenses[i]._id = ObjectId(req'.id)
          /\ expenses[i].user_id = ownerOf(req'.auth))

C13_Answered ==
    /\ idle
    /\ req'.op \in {"update", "delete"}
    /\ resp'.status \notin {401, 403}
    /\ req'.op = "update" => expenseErrors(req'.body) = <<>>

C13_Step ==
    (C13_Answered /\ C13_NoEntryOfCaller) =>
        /\ resp' = [Reply(req'.op, 200) EXCEPT !.count = {0}]
        /\ store' = store

(* C13: an update (with valid fields) or a delete whose path id, whatever  *)
(* the client wrote there, identifies no document of the caller (never     *)
(* issued, deleted, or owned by another user) is answered 200 with the     *)
(* count 0 and nothing else, the same answer in each of these cases, and   *)
(* leaves the store unchanged.                                             *)
C13_NoMatchZero == [][C13_Step]_vars

(* the same for the path ids that are 24 hex digits *)
C13_NoMatchZeroOfObjectIds == [][~ObjectIdThrows(req'.id) => C13_Step]_vars

(* the answer carries no ledger data *)
C14_NoData(r) == r.id = {} /\ r.count = {} /\ r.list = <<>> /\ r.summary = {}

(* every token of the header is signed with the server's key and not yet   *)
(* expired                                                                 *)
C14_Verified(auth) ==
    /\ auth # {}
    /\ \A token \in auth : token.key = JWT_SECRET /\ now < token.exp

C14_Step ==
    (idle /\ req'.op \in LedgerOps) =>
        /\ req'.auth = {} =>
              /\ resp' = ErrorReply(req'.op, 401, "No token provided")
              /\ store' = store
        /\ (req'.auth # {} /\ ~C14_Verified(req'.auth)) =>
              /\ resp' = ErrorReply(req'.op, 403, "Invalid token")
              /\ store' = store
        /\ (store' # store \/ ~C14_NoData(resp')) => C14_Verified(req'.auth)
        /\ C14_Verified(req'.auth) => resp'.status \notin {401, 403}

(* C14: a request to create, list, update, delete or summary without a     *)
(* token is answered 401, one whose token has a wrong signature or is      *)
(* expired is answered 403; both leave the store unchanged and carry no    *)
(* ledger data, so the store is written and ledger data returned only for  *)
(* a verified token, which is never answered 401 or 403.                   *)
C14_TokenGuard == [][C14_Step]_vars

C14_Witness ==
    /\ req.op = "list"
    /\ resp.status = 403
    /\ \E token \in req.auth :
           /\ token.key # JWT_SECRET
           /\ matchOwner(ObjectId(token.user_id)) # {}

(* days of a month of the Gregorian calendar *)
C15_DaysIn(year, month) ==
    IF month = 2
    THEN (IF (year % 4 = 0 /\ year % 100 # 0) \/ year % 400 = 0 THEN 29 ELSE 28)
    ELSE IF month \in {4, 6, 9, 11} THEN 30 ELSE 31

(* a calendar date in one of the written forms the validator knows whose   *)
(* month and day exist                                                     *)
C15_CalendarDate(s) ==
    /\ isISO8601(s)
    /\ Len(s) \in {8, 10} =>
          LET n == DateNumber(s)
          IN  (n % 100) <= C15_DaysIn(n \div 10000, (n \div 100) % 100)

(* the messages of the field rules the body violates, in the order the     *)
(* rules are declared                                                      *)
C15_Violations(b) ==
    Msg(b.type \notin {"expense", "income"}, "type must be expense or income")
    \o Msg(~(b.amount.json = "number" /\ b.amount.v > 0),
           "amount must be a number greater than 0")
    \o Msg(~C15_CalendarDate(b.date), "date must be a date like yyyy-mm-dd")
    \o Msg(b.description = "", "description must not be empty")

C15_Step ==
    (/\ idle
     /\ req'.op \in {"create", "update"}
     /\ resp'.status \notin {401, 403}
     /\ C15_Violations(req'.body) # <<>>) =>
        /\ resp' = ErrorsReply(req'.op, C15_Violations(req'.body))
        /\ store' = store

(* C15: a create or update whose body breaks a field rule (type not        *)
(* expense or income, amount not a number greater than 0, date not a       *)
(* calendar date, description empty) is answered 400 with the list of the  *)
(* messages of exactly the rules it breaks, and the store is unchanged.    *)
C15_ValidationRejects == [][C15_Step]_vars

C15_StepOfValidators ==
    (/\ idle
     /\ req'.op \in {"create", "update"}
     /\ resp'.status \notin {401, 403}
     /\ expenseErrors(req'.body) # <<>>) =>
        /\ resp' = ErrorsReply(req'.op, expenseErrors(req'.body))
        /\ store' = store

(* the same for the rules as the validators check them: the text of the    *)
(* amount, and a date by its pattern                                       *)
C15_ValidatorsReject == [][C15_StepOfValidators]_vars

(* the documents of an owner, in the order of the collection: what a run   *)
(* holds in which only this owner's requests are made                      *)
C16_View(docs, owner) == SelectSeq(docs, LAMBDA d : d.user_id = owner)

(* positions in the view v of the document with the id *)
C16_At(v, id) == {k \in 1 .. Len(v) : v[k]._id = id}

(* $sum of the amounts of one type and month over the first n documents of *)
(* the view v                                                              *)
RECURSIVE C16_Sum(_, _, _, _)
C16_Sum(v, n, period, type) ==
    IF n = 0 THEN 0
    ELSE C16_Sum(v, n - 1, period, type)
         + (IF substr(v[n].date, 0, Period) = period /\ v[n].type = type
            THEN sumOperand(v[n].amount)
            ELSE 0)

(* the groups of the summary computed from the view v alone *)
C16_Summary(v) ==
    {[_id |-> period,
      total_income |-> C16_Sum(v, Len(v), period, "income"),
      total_expense |-> C16_Sum(v, Len(v), period, "expense")] :
        period \in {substr(v[k].date, 0, Period) : k \in 1 .. Len(v)}}

(* the answer r to the request q and the view w after it are an answer and *)
(* a view the request can have when the collection holds the view v only   *)
C16_Alone(q, v, r, w) ==
    IF r.status # 200
    THEN w = v /\ C14_NoData(r)
    ELSE IF q.op = "create"
    THEN \E id \in r.id :
             /\ r = [Reply("create", 200) EXCEPT !.id = {id}]
             /\ C16_At(v, id) = {}
             /\ w = Append(v, [_id |-> id, user_id |-> ownerOf(q.auth),
                               type |-> q.body.type, amount |-> q.body.amount,
                               description |-> q.body.description,
                               date |-> q.body.date])
    ELSE IF q.op = "list"
    THEN /\ w = v
         /\ r = [Reply("list", 200) EXCEPT !.list = r.list]
         /\ Len(r.list) = Len(v)
         /\ \A k \in 1 .. Len(v) : \E j \in 1 .. Len(v) : r.list[j] = v[k]
         /\ \A i, j \in 1 .. Len(v) :
                i < j => ~StrLess(r.list[i].date, r.list[j].date)
    ELSE IF q.op = "summary"
    THEN w = v /\ r = [Reply("summary", 200) EXCEPT !.summary = C16_Summary(v)]
    ELSE IF q.op = "update"
    THEN IF C16_At(v, ObjectId(q.id)) = {}
         THEN w = v /\ r = [Reply("update", 200) EXCEPT !.count = {0}]
         ELSE \E k \in C16_At(v, ObjectId(q.id)) :
                  /\ w = [v EXCEPT ![k] = C12_Set(v[k], q.body)]
                  /\ r = [Reply("update", 200) EXCEPT
                             !.count = {IF w = v THEN 0 ELSE 1}]
    ELSE IF C16_At(v, ObjectId(q.id)) = {}
         THEN w = v /\ r = [Reply("delete", 200) EXCEPT !.count = {0}]
         ELSE \E k \in C16_At(v, ObjectId(q.id)) :
                  /\ w = RemoveAt(v, k)
                  /\ r = [Reply("delete", 200) EXCEPT !.count = {1}]

C16_Step ==
    (idle /\ req'.op \in LedgerOps /\ resp'.status \notin {401, 403}) =>
        LET caller == ownerOf(req'.auth)
        IN  /\ C16_Alone(req', C16_View(expenses, caller), resp',
                         C16_View(expenses', caller))
            /\ \A other \in UserIds \ {caller} :
                   C16_View(expenses', other) = C16_View(expenses, other)

(* C16: whatever requests the two owners interleave, each answer an owner  *)
(* gets (created id, list, summary, update and delete counts, errors) and  *)
(* the documents the owner has afterwards are an answer and a result of    *)
(* the same request on a collection holding that owner's documents alone,  *)
(* and the request leaves the documents of the other owner as they were:   *)
(* by induction over the run, an owner's answers and final documents are   *)
(* those of the run without the other owner's requests (the database's     *)
(* free choices, fresh ids and the order of equal dates, being the same).  *)
C16_NonInterference == [][C16_Step]_vars

C16_Witness ==
    /\ req.op = "summary"
    /\ resp.status = 200
    /\ \E i, j \in 1 .. Len(expenses) :
           /\ expenses[i].user_id = ownerOf(req.auth)
           /\ expenses[j].user_id # ownerOf(req.auth)
           /\ expenses[j].type = expenses[i].type
           /\ substr(expenses[j].date, 0, Period) = substr(expenses[i].date, 0, Period)
           /\ sumOperand(expenses[j].amount) > 0

(* the body breaks a rule of registration *)
C17_Rejected(b) ==
    b.username = "" \/ Len(b.username) < 4 \/ Len(b.password) < 4

C17_Step ==
    (idle /\ isDbReady /\ req'.op = "register" /\ C17_Rejected(req'.body)) =>
        /\ resp'.status = 400
        /\ resp'.errors # <<>>
        /\ resp'.id = {}
        /\ store' = store
        /\ inflight' = inflight

C17_Records ==
    /\ \A i \in 1 .. Len(users) : Len(users[i].username) >= 4
    /\ \A s \in Pending : \A b \in inflight[s] : ~C17_Rejected(b)

(* C17: a registration whose username is empty or shorter than 4           *)
(* characters, or whose password is shorter than 4 characters, is answered *)
(* 400 with the list of messages, creates no record and goes on to no      *)
(* insert; so every user record, and every registration on its way to the  *)
(* insert, has a username of at least 4 characters.                        *)
C17_RegisterValidation == []C17_Records /\ [][C17_Step]_vars

C17_Witness ==
    /\ req.op = "register"
    /\ resp.status = 400
    /\ req.body.username = "al"
    /\ req.body.password = "pass1234"
    /\ Len(users) = 1

(* the records with the username, and whether the password is the one a    *)
(* record was registered with                                              *)
C18_Named(username) == {i \in 1 .. Len(users) : users[i].username = username}

C18_Matches(password, i) == users[i].password.digest[2] = password

C18_Failure(text) ==
    /\ resp' = ErrorReply("login", 401, text)
    /\ store' = store
    /\ session' = session

C18_StepAnyPassword ==
    (idle /\ isDbReady /\ req'.op = "login" /\ req'.body.username # "") =>
        LET b == req'.body
        IN  /\ C18_Named(b.username) = {} => C18_Failure("User not found")
            /\ (/\ C18_Named(b.username) # {}
                /\ \A i \in C18_Named(b.username) : ~C18_Matches(b.password, i)) =>
                   C18_Failure("Invalid password")

(* C18: a login with a non-empty username that no record has is answered   *)
(* 401 'User not found', one with the username of a record and a password  *)
(* that is not the record's is answered 401 'Invalid password'; the two    *)
(* answers differ, carry no token, and leave users, expenses and the       *)
(* client's token as they were.                                            *)
C18_LoginFailures == [][C18_StepAnyPassword]_vars

C18_Step ==
    (/\ idle /\ isDbReady /\ req'.op = "login"
     /\ req'.body.username # "" /\ req'.body.password # "") =>
        LET b == req'.body
        IN  /\ C18_Named(b.username) = {} => C18_Failure("User not found")
            /\ (/\ C18_Named(b.username) # {}
                /\ \A i \in C18_Named(b.username) : ~C18_Matches(b.password, i)) =>
                   C18_Failure("Invalid password")
            /\ resp'.status = 401 =>
                   /\ resp'.token = {}
                   /\ resp'.error = "User not found" <=> C18_Named(b.username) = {}

(* C18 amended: the same for a login whose password is not empty either (a *)
(* login with an empty username or password is answered 400 by the         *)
(* validators before the lookup).                                          *)
C18_LoginFailuresWithPassword == [][C18_Step]_vars

C18_Witness ==
    /\ req.op = "login"
    /\ resp.status = 401
    /\ resp.error = "Invalid password"
    /\ req.body.password # ""
    /\ resp.token = {}
    /\ \E c \in Clients : session[c] # {}

C19_Step ==
    /\ Len(users') >= Len(users)
    /\ \A i \in 1 .. Len(users) : users'[i] = users[i]

(* C19: once a user record is in the collection, no step of any request    *)
(* (a register, a login, a ledger operation, the readiness gate) changes   *)
(* its _id, username or password hash, or removes it: the collection only  *)
(* grows at its end.                                                       *)
C19_UsersWriteOnce == [][C19_Step]_vars

C19_Witness ==
    /\ req.op = "register"
    /\ resp.status = 200
    /\ Len(users) = 2
    /\ users[1].username = req.body.username
    /\ users[2]._id \in resp.id

(* the caller's documents the id of the path identifies *)
C20_Owned ==
    {i \in 1 .. Len(expenses) :
        /\ ~ObjectIdThrows(req'.id)
        /\ expenses[i]._id = ObjectId(req'.id)
        /\ expenses[i].user_id = ownerOf(req'.auth)}

C20_Update ==
    /\ idle
    /\ req'.op = "update"
    /\ resp'.status \notin {401, 403}
    /\ expenseErrors(req'.body) = <<>>

(* C20: an update with valid fields on an id of a document of the caller   *)
(* is answered {updated: 1}, also when the submitted values are the stored *)
(* ones; the count 0 is answered only when the caller has no document with *)
(* that id.                                                                *)
C20_UpdatedIsMatched ==
    [][C20_Update =>
          /\ C20_Owned # {} => resp' = [Reply("update", 200) EXCEPT !.count = {1}]
          /\ resp'.count = {0} => C20_Owned = {}]_vars

(* the count is 1 when the update changes a field of the document *)
C20_UpdatedIsModified ==
    [][C20_Update =>
          \A i \in C20_Owned :
              resp' = [Reply("update", 200) EXCEPT
                          !.count = {IF C12_Set(expenses[i], req'.body) = expenses[i]
                                     THEN 0 ELSE 1}]]_vars

====
